---------------------------- MODULE Spec2Model ----------------------------
(* Model of mta.py: the arrival extractor gettimes and the feed scanner   *)
(* getTrainTimes with its adaptive feed order, called once at a time       *)
(* (Spec) and from two threads (SpecConc).                                 *)
(*                                                                         *)
(* A decoded feed is a sequence of entities.  An entity is a record        *)
(*   [has_trip_update, route_id, stop_time_update]                         *)
(* and a stop-time update is a record [stop_id, has_arrival, arrival_time].*)
(* A route id is a sequence of one-character strings, so that route_id[0]  *)
(* of the code is Head(route_id).  Times are whole epoch seconds: the code *)
(* reads the clock through timetuple(), which drops the fraction.          *)
EXTENDS Integers, Sequences, FiniteSets, TLC

(***************************************************************************)
(* Bounds                                                                  *)
(***************************************************************************)
NumFeeds == 3
MaxCalls == 2
MaxEntities == 2
MaxUpdates == 2
MaxElapsed == 200

(***************************************************************************)
(* Generic helpers                                                         *)
(***************************************************************************)
Range(s) == {s[i] : i \in 1..Len(s)}

RECURSIVE Reverse(_)
Reverse(s) == IF s = <<>> THEN <<>> ELSE Append(Reverse(Tail(s)), Head(s))

\* Insert x into the key-sorted sequence s after every element whose key is
\* not greater than the key of x.  key is a function from elements to Int.
RECURSIVE InsertStable(_, _, _)
InsertStable(s, x, key) ==
    IF s = <<>> THEN <<x>>
    ELSE IF key[Head(s)] <= key[x]
         THEN <<Head(s)>> \o InsertStable(Tail(s), x, key)
         ELSE <<x>> \o s

RECURSIVE StableSort(_, _)
StableSort(s, key) ==
    IF s = <<>> THEN <<>>
    ELSE InsertStable(StableSort(SubSeq(s, 1, Len(s) - 1), key), s[Len(s)], key)

\* A mutant of Sorted: reverse is ignored.
SortedAscending(s, key, reverse) == StableSort(s, key)

\* A mutant of Sorted: reverse=True implemented by reversing the ascending
\* stable sort only afterwards, which reverses ties.
SortedTiesReversed(s, key, reverse) ==
    IF reverse THEN Reverse(StableSort(s, key)) ELSE StableSort(s, key)

\* Python's sorted(s, key=..., reverse=...): stable, and with reverse=True
\* elements with equal keys still keep their original order (the list is
\* reversed, sorted ascending, and reversed again).
Sorted(s, key, reverse) ==
    IF reverse THEN Reverse(StableSort(Reverse(s), key)) ELSE StableSort(s, key)

(***************************************************************************)
(* Input domains                                                           *)
(***************************************************************************)
Routes == {<<"Q", "1">>, <<"N">>}

\* Clock readings (epoch seconds).
NowValues == {1000, 1001}

\* Stop-time updates of the small feeds.  An arrival at 1000 has passed at
\* clock 1001 and is 0 minutes away at clock 1000; 1090 and 1091 are 1 and 2
\* minutes away at clock 1000 and both 1 minute away at clock 1001.
Updates ==
    [stop_id : {"Q03N", "Q03S"}, has_arrival : {TRUE}, arrival_time : {1090, 1091}]
    \cup {[stop_id |-> "Q03N", has_arrival |-> TRUE, arrival_time |-> 1000],
          [stop_id |-> "R16N", has_arrival |-> TRUE, arrival_time |-> 1091],
          [stop_id |-> "Q03S", has_arrival |-> FALSE, arrival_time |-> 0]}

NoTripUpdate == [has_trip_update |-> FALSE, route_id |-> <<>>, stop_time_update |-> <<>>]

\* Entities carrying exactly k stop-time updates: a trip update with k
\* updates, or for k = 0 also an entity without trip update.
EntitiesWith(k) ==
    (IF k = 0 THEN {NoTripUpdate} ELSE {})
    \cup [has_trip_update : {TRUE}, route_id : Routes, stop_time_update : [1..k -> Updates]]

\* Feeds of at most e entities and at most n stop-time updates in all.
RECURSIVE FeedsUpTo(_, _)
FeedsUpTo(e, n) ==
    IF e = 0 THEN {<<>>}
    ELSE {<<>>} \cup
         UNION {{<<ent>> \o rest : ent \in EntitiesWith(k), rest \in FeedsUpTo(e - 1, n - k)} :
                k \in 0..n}

\* A feed holding a single update for stop at arrival time t.
SingleUpdateFeed(stop, route, t) ==
    <<[has_trip_update |-> TRUE, route_id |-> route,
       stop_time_update |-> <<[stop_id |-> stop, has_arrival |-> TRUE, arrival_time |-> t]>>]>>

RECURSIVE NumUpdates(_)
NumUpdates(feed) ==
    IF feed = <<>> THEN 0
    ELSE Len(Head(feed).stop_time_update) + NumUpdates(Tail(feed))

\* Clock readings during one scan: the p-th stop-time update of the feed (in
\* decode order) is examined at clk[p]; the clock never runs backwards.
Clocks(n) == {c \in [1..n -> NowValues] : \A i \in 1..n : \A j \in i..n : c[i] <= c[j]}

(***************************************************************************)
(* gettimes: the arrival extractor (mta.py 56-133)                         *)
(***************************************************************************)
EmptyTimes == <<<<>>, <<>>, <<>>, <<>>>>

\* Loop state of gettimes: the four accumulators, whether an exception was
\* raised, and the number of stop-time updates examined so far.
AccInit ==
    [uptownTimes |-> <<>>, uptownTrainIDs |-> <<>>,
     downtownTimes |-> <<>>, downtownTrainIDs |-> <<>>,
     raised |-> FALSE, pos |-> 0]

\* A mutant of AtOurStop: only the uptown station is looked for.
AtOurStopUptownOnly(stop_id, s1, s2) == stop_id = s1

\* stop_id in [s1, s2]
AtOurStop(stop_id, s1, s2) == stop_id \in {s1, s2}

\* A mutant of Minutes: rounds up from a remainder of 30 on.
MinutesRoundHalfUp(elapsed) ==
    IF elapsed % 60 >= 30 THEN (elapsed \div 60) + 1 ELSE elapsed \div 60

\* int(elapsed / 60) and int(elapsed % 60), rounded to the nearest minute.
\* int() truncates toward zero; % takes the sign of the divisor.
Minutes(elapsed) ==
    LET mins == IF elapsed >= 0 THEN elapsed \div 60 ELSE -((-elapsed) \div 60)
        secs == elapsed % 60
    IN  IF secs > 30 THEN mins + 1 ELSE mins

\* A mutant of SkipZero: arrivals rounding to 0 minutes are kept.
SkipZeroNever(mins) == FALSE

\* if (mins == 0): continue
SkipZero(mins) == mins = 0

\* A mutant of AddArrival: duplicates are recognised by train id.
AddArrivalByTrain(dir, mins, trainID) ==
    IF trainID \notin Range(dir.ids)
    THEN [times |-> Append(dir.times, mins), ids |-> Append(dir.ids, trainID)]
    ELSE dir

\* "Check for dupes and then append" for one direction, dir = [times, ids].
AddArrival(dir, mins, trainID) ==
    IF mins \notin Range(dir.times)
    THEN [times |-> Append(dir.times, mins), ids |-> Append(dir.ids, trainID)]
    ELSE dir

\* Body of the loop over stop-time updates for one update, read at clock now.
ProcessUpdate(acc, update, route_id, s1, s2, now) ==
    LET a == [acc EXCEPT !.pos = acc.pos + 1]
    IN
    IF acc.raised THEN acc
    ELSE IF ~AtOurStop(update.stop_id, s1, s2) THEN a
    ELSE IF ~update.has_arrival THEN [a EXCEPT !.raised = TRUE]
    ELSE
      LET elapsed == update.arrival_time - now
          trainID == Head(route_id)
          mins    == Minutes(elapsed)
          up      == AddArrival([times |-> a.uptownTimes, ids |-> a.uptownTrainIDs],
                                mins, trainID)
          afterUp == IF update.stop_id = s1
                     THEN [a EXCEPT !.uptownTimes = up.times, !.uptownTrainIDs = up.ids]
                     ELSE a
          dn      == AddArrival([times |-> a.downtownTimes, ids |-> a.downtownTrainIDs],
                                mins, trainID)
      IN
      IF elapsed < 0 THEN a
      ELSE IF SkipZero(mins) THEN a
      ELSE IF update.stop_id = s2
           THEN [afterUp EXCEPT !.downtownTimes = dn.times, !.downtownTrainIDs = dn.ids]
           ELSE afterUp

RECURSIVE ScanUpdates(_, _, _, _, _, _)
ScanUpdates(acc, updates, route_id, s1, s2, clk) ==
    IF updates = <<>> THEN acc
    ELSE ScanUpdates(
           ProcessUpdate(acc, Head(updates), route_id, s1, s2, clk[acc.pos + 1]),
           Tail(updates), route_id, s1, s2, clk)

RECURSIVE ScanEntities(_, _, _, _, _)
ScanEntities(acc, entities, s1, s2, clk) ==
    IF entities = <<>> THEN acc
    ELSE
      LET train == Head(entities)
          next  == IF train.has_trip_update /\ train.stop_time_update # <<>>
                   THEN ScanUpdates(acc, train.stop_time_update, train.route_id, s1, s2, clk)
                   ELSE acc
      IN  ScanEntities(next, Tail(entities), s1, s2, clk)

\* A mutant of SortDirection: the minutes are sorted, the train ids are not.
SortDirectionTimesOnly(times, ids) ==
    LET key    == [t \in Range(times) |-> t]
    IN  [times |-> Sorted(times, key, FALSE), ids |-> ids]

\* zip(times, ids), sorted by the minutes, unzipped again.
SortDirection(times, ids) ==
    LET pairs  == [i \in 1..Len(times) |-> <<times[i], ids[i]>>]
        key    == [p \in Range(pairs) |-> p[1]]
        sorted == Sorted(pairs, key, FALSE)
    IN  [times |-> [i \in 1..Len(sorted) |-> sorted[i][1]],
         ids   |-> [i \in 1..Len(sorted) |-> sorted[i][2]]]

\* A mutant of gettimes: the results are sorted without the tests for an
\* empty direction, and unpacking the empty zip raises.
gettimesUnguardedSort(feed, s1, s2, clk) ==
    LET acc == ScanEntities(AccInit, feed, s1, s2, clk)
        up  == SortDirection(acc.uptownTimes, acc.uptownTrainIDs)
        dn  == SortDirection(acc.downtownTimes, acc.downtownTrainIDs)
    IN  IF acc.raised \/ acc.uptownTimes = <<>> \/ acc.downtownTimes = <<>>
        THEN [raised |-> TRUE, value |-> EmptyTimes]
        ELSE [raised |-> FALSE, value |-> <<up.ids, up.times, dn.ids, dn.times>>]

\* The result of gettimes on a decoded feed: raised, or the 4-tuple
\* (uptownTrainIDs, uptownTimes, downtownTrainIDs, downtownTimes).
gettimes(feed, s1, s2, clk) ==
    LET acc == ScanEntities(AccInit, feed, s1, s2, clk)
        up  == SortDirection(acc.uptownTimes, acc.uptownTrainIDs)
        dn  == SortDirection(acc.downtownTimes, acc.downtownTrainIDs)
    IN  IF acc.raised THEN [raised |-> TRUE, value |-> EmptyTimes]
        ELSE [raised |-> FALSE, value |-> <<up.ids, up.times, dn.ids, dn.times>>]


(***************************************************************************)
(* getTrainTimes: the feed scanner (mta.py 32-51, 135-170)                 *)
(***************************************************************************)
NQRWfeednum == "16"
BDFMfeednum == "21"
S123456feednum == "1"
ACEHfeednum == "26"
Lfeednum == "2"
Gfeednum == "31"
JZfeednum == "36"
Sevenfeednum == "51"
SIRfeednum == "11"

AllFeeds ==
    <<NQRWfeednum, BDFMfeednum, S123456feednum, ACEHfeednum,
      Lfeednum, Gfeednum, JZfeednum, Sevenfeednum, SIRfeednum>>

\* The feeds the model knows: the first NumFeeds of the program's list.
KnownFeeds == SubSeq(AllFeeds, 1, NumFeeds)

Feeds == Range(KnownFeeds)

\* Station pairs a caller passes.
StopPairs == {<<"Q03N", "Q03S">>}

\* What a feed may hold when the scanner fetches it: an entity without trip
\* update and an arrival at another station, an uptown arrival, a downtown arrival, arrivals in both directions with
\* the later uptown train first and two uptown trains in the same minute,
\* and an update without arrival.  The arrival times are such that the
\* results are the same at every clock reading of NowValues.
FeedCatalogue ==
    { <<NoTripUpdate>> \o SingleUpdateFeed("R16N", <<"N">>, 1090),
      SingleUpdateFeed("Q03N", <<"Q", "1">>, 1090),
      SingleUpdateFeed("Q03S", <<"N">>, 1090),
      << [has_trip_update |-> TRUE, route_id |-> <<"N">>,
          stop_time_update |->
            << [stop_id |-> "Q03N", has_arrival |-> TRUE, arrival_time |-> 1212],
               [stop_id |-> "Q03S", has_arrival |-> TRUE, arrival_time |-> 1090] >>],
         [has_trip_update |-> TRUE, route_id |-> <<"Q", "1">>,
          stop_time_update |->
            << [stop_id |-> "Q03N", has_arrival |-> TRUE, arrival_time |-> 1090],
               [stop_id |-> "Q03N", has_arrival |-> TRUE, arrival_time |-> 1085] >>] >>,
      << [has_trip_update |-> TRUE, route_id |-> <<"Q", "1">>,
          stop_time_update |->
            << [stop_id |-> "Q03S", has_arrival |-> FALSE, arrival_time |-> 0] >>] >> }

VARIABLES
    feedsToCheck,       \* global: the feed order
    feedScores,         \* global: feed -> score
    pc,                 \* position of getTrainTimes: idle, loop, sort, returned, raised
    stations,           \* arguments <<ourUptownStation, ourDowntownStation>>
    iter,               \* the list object the for loop iterates
    idx,                \* index (from 1) of the next element of iter
    uptownTrainIDs, uptownTimes, downtownTrainIDs, downtownTimes,   \* locals
    ret,                \* the value the last call returned
    calls,              \* number of calls started
    startOrder,         \* history: feedsToCheck at the start of the call
    startScores,        \* history: feedScores at the start of the call
    probes,             \* history: the probes of the call, in order
    bothOnly,           \* history: feeds that were probed in every finished call and
                        \* gave both directions at each of their probes, while no
                        \* other feed ever gave both and no probe failed
    soleSource,         \* history: the same, while no other feed ever gave any
                        \* direction
    aborted,            \* history: some call so far was left by an exception
    xfeed, xstops, xclk,\* gettimes alone: the decoded feed, the stations, the clock
    xtimes,             \* gettimes alone: the result
    xpc,                \* gettimes alone: "ready" before the run, then "done"
    threads,            \* concurrent calls: thread -> position and locals of its call
    incs,               \* concurrent calls, history: feed -> number of += 1 executed
    overlapped          \* concurrent calls, history: a call began while another ran

globals == <<feedsToCheck, feedScores>>
locals  == <<uptownTrainIDs, uptownTimes, downtownTrainIDs, downtownTimes>>
control == <<pc, stations, iter, idx, ret, calls>>
history == <<startOrder, startScores, probes, bothOnly, soleSource, aborted>>
xvars   == <<xfeed, xstops, xclk, xtimes, xpc>>
cvars   == <<threads, incs, overlapped>>
vars    == <<globals, locals, control, history, xvars, cvars>>

\* The threads that call getTrainTimes concurrently.
Threads == {1, 2}

\* A thread that has not called yet: position, the list object of the for
\* loop and its index, the loop variable f, the result of gettimes, the four
\* accumulators, the score read by += (reg), and the list and the keys
\* read by sorted() (snap, keys).  The value returned goes to the caller.
ThreadIdle ==
    [pc |-> "idle", iter |-> <<>>, idx |-> 1, f |-> "", times |-> EmptyTimes,
     uptownTrainIDs |-> <<>>, uptownTimes |-> <<>>,
     downtownTrainIDs |-> <<>>, downtownTimes |-> <<>>,
     reg |-> 0, snap |-> <<>>, keys |-> <<>>]

\* State of the module after import.
InitScanner ==
    /\ feedsToCheck = KnownFeeds
    /\ feedScores = [f \in Feeds |-> 0]
    /\ pc = "idle"
    /\ stations = <<"Q03N", "Q03S">>
    /\ iter = <<>>
    /\ idx = 1
    /\ uptownTrainIDs = <<>>
    /\ uptownTimes = <<>>
    /\ downtownTrainIDs = <<>>
    /\ downtownTimes = <<>>
    /\ ret = EmptyTimes
    /\ calls = 0
    /\ startOrder = KnownFeeds
    /\ startScores = [f \in Feeds |-> 0]
    /\ probes = <<>>
    /\ bothOnly = Feeds
    /\ soleSource = Feeds
    /\ aborted = FALSE

Init ==
    /\ InitScanner
    /\ xfeed = <<>>
    /\ xstops = <<"Q03N", "Q03S">>
    /\ xclk = <<>>
    /\ xtimes = [raised |-> FALSE, value |-> EmptyTimes]
    /\ xpc = "ready"
    /\ threads = [t \in Threads |-> ThreadIdle]
    /\ incs = [f \in Feeds |-> 0]
    /\ overlapped = FALSE

\* Entry of getTrainTimes: the accumulators are emptied and the for loop
\* takes the list feedsToCheck names at this moment.
Call(st) ==
    /\ pc \in {"idle", "returned", "raised"}
    /\ calls < MaxCalls
    /\ pc' = "loop"
    /\ calls' = calls + 1
    /\ stations' = st
    /\ iter' = feedsToCheck
    /\ idx' = 1
    /\ uptownTrainIDs' = <<>>
    /\ uptownTimes' = <<>>
    /\ downtownTrainIDs' = <<>>
    /\ downtownTimes' = <<>>
    /\ startOrder' = feedsToCheck
    /\ startScores' = feedScores
    /\ probes' = <<>>
    /\ ret' = EmptyTimes
    /\ UNCHANGED <<globals, bothOnly, soleSource, aborted, xvars, cvars>>

\* A mutant of LoopBody: the loop never breaks.
LoopBodyNoBreak(st, f, times) ==
    LET foundUp   == Len(times[1]) # 0
        foundDown == Len(times[3]) # 0
        n         == (IF foundUp THEN 1 ELSE 0) + (IF foundDown THEN 1 ELSE 0)
    IN  [uptownTrainIDs   |-> IF foundUp THEN times[1] ELSE st.uptownTrainIDs,
         uptownTimes      |-> IF foundUp THEN times[2] ELSE st.uptownTimes,
         downtownTrainIDs |-> IF foundDown THEN times[3] ELSE st.downtownTrainIDs,
         downtownTimes    |-> IF foundDown THEN times[4] ELSE st.downtownTimes,
         feedScores       |-> [st.feedScores EXCEPT ![f] = @ + n],
         broke            |-> FALSE]

\* A mutant of LoopBody: the loop is left as soon as a feed gave anything.
LoopBodyBreakOnFirst(st, f, times) ==
    LET foundUp   == Len(times[1]) # 0
        foundDown == Len(times[3]) # 0
        n         == (IF foundUp THEN 1 ELSE 0) + (IF foundDown THEN 1 ELSE 0)
    IN  [uptownTrainIDs   |-> IF foundUp THEN times[1] ELSE st.uptownTrainIDs,
         uptownTimes      |-> IF foundUp THEN times[2] ELSE st.uptownTimes,
         downtownTrainIDs |-> IF foundDown THEN times[3] ELSE st.downtownTrainIDs,
         downtownTimes    |-> IF foundDown THEN times[4] ELSE st.downtownTimes,
         feedScores       |-> [st.feedScores EXCEPT ![f] = @ + n],
         broke            |-> foundUp \/ foundDown]

\* A mutant of LoopBody: the downtown test is an elif of the uptown test.
LoopBodyElif(st, f, times) ==
    LET foundUp   == Len(times[1]) # 0
        foundDown == ~foundUp /\ Len(times[3]) # 0
    IN  [uptownTrainIDs   |-> IF foundUp THEN times[1] ELSE st.uptownTrainIDs,
         uptownTimes      |-> IF foundUp THEN times[2] ELSE st.uptownTimes,
         downtownTrainIDs |-> IF foundDown THEN times[3] ELSE st.downtownTrainIDs,
         downtownTimes    |-> IF foundDown THEN times[4] ELSE st.downtownTimes,
         feedScores       |-> [st.feedScores EXCEPT
                                 ![f] = @ + (IF foundUp \/ foundDown THEN 1 ELSE 0)],
         broke            |-> \/ foundUp /\ Len(st.downtownTrainIDs) # 0
                              \/ foundDown /\ Len(st.uptownTrainIDs) # 0]

\* The body of the for loop after gettimes returned times for feed f.
\* st holds the four accumulators and feedScores; the result adds broke,
\* whether the loop was left by break.
LoopBody(st, f, times) ==
    LET foundUp == Len(times[1]) # 0
        afterUp ==
          IF foundUp
          THEN [st EXCEPT !.feedScores[f] = @ + 1,
                          !.uptownTrainIDs = times[1],
                          !.uptownTimes = times[2]]
          ELSE st
        breakUp == foundUp /\ Len(st.downtownTrainIDs) # 0
        foundDown == Len(times[3]) # 0
        afterDown ==
          IF foundDown
          THEN [afterUp EXCEPT !.feedScores[f] = @ + 1,
                               !.downtownTrainIDs = times[3],
                               !.downtownTimes = times[4]]
          ELSE afterUp
        breakDown == foundDown /\ Len(afterUp.uptownTrainIDs) # 0
    IN  IF breakUp
        THEN [uptownTrainIDs |-> afterUp.uptownTrainIDs,
              uptownTimes |-> afterUp.uptownTimes,
              downtownTrainIDs |-> afterUp.downtownTrainIDs,
              downtownTimes |-> afterUp.downtownTimes,
              feedScores |-> afterUp.feedScores,
              broke |-> TRUE]
        ELSE [uptownTrainIDs |-> afterDown.uptownTrainIDs,
              uptownTimes |-> afterDown.uptownTimes,
              downtownTrainIDs |-> afterDown.downtownTrainIDs,
              downtownTimes |-> afterDown.downtownTimes,
              feedScores |-> afterDown.feedScores,
              broke |-> breakDown]

\* Kind of a gettimes result, for the history.
Kind(times) ==
    IF Len(times[1]) # 0 /\ Len(times[3]) # 0 THEN "both"
    ELSE IF Len(times[1]) # 0 THEN "up"
    ELSE IF Len(times[3]) # 0 THEN "down"
    ELSE "none"

\* The feeds of cand of which it is still true, after feed f gave a result
\* of kind k, that they gave both directions whenever probed and no other
\* feed gave both.
StillBothOnly(cand, f, k) ==
    IF k = "both" THEN cand \cap {f} ELSE cand \ {f}

\* The same, with: and no other feed gave any direction.
StillSoleSource(cand, f, k) ==
    IF k = "both" THEN cand \cap {f}
    ELSE IF k = "none" THEN cand \ {f}
    ELSE {}

\* A mutant of Probe: the re-sort of feedsToCheck is indented into the loop.
ProbeResorting(feed, clk) ==
    /\ pc = "loop"
    /\ idx <= Len(iter)
    /\ LET f     == iter[idx]
           times == gettimes(feed, stations[1], stations[2], clk)
           st    == [uptownTrainIDs |-> uptownTrainIDs, uptownTimes |-> uptownTimes,
                     downtownTrainIDs |-> downtownTrainIDs,
                     downtownTimes |-> downtownTimes, feedScores |-> feedScores]
           new   == LoopBody(st, f, times.value)
       IN
       /\ IF times.raised
          THEN /\ pc' = "raised"
               /\ probes' = Append(probes,
                    [feed |-> f, data |-> feed, failed |-> TRUE, times |-> EmptyTimes,
                     upBefore |-> uptownTrainIDs # <<>>,
                     downBefore |-> downtownTrainIDs # <<>>, delta |-> 0])
               /\ bothOnly' = {}
               /\ soleSource' = {}
               /\ aborted' = TRUE
               /\ UNCHANGED <<globals, locals, idx>>
          ELSE /\ uptownTrainIDs' = new.uptownTrainIDs
               /\ uptownTimes' = new.uptownTimes
               /\ downtownTrainIDs' = new.downtownTrainIDs
               /\ downtownTimes' = new.downtownTimes
               /\ feedScores' = new.feedScores
               /\ idx' = idx + 1
               /\ pc' = IF new.broke \/ idx = Len(iter) THEN "sort" ELSE "loop"
               /\ probes' = Append(probes,
                    [feed |-> f, data |-> feed, failed |-> FALSE, times |-> times.value,
                     upBefore |-> uptownTrainIDs # <<>>,
                     downBefore |-> downtownTrainIDs # <<>>,
                     delta |-> new.feedScores[f] - feedScores[f]])
               /\ bothOnly' = StillBothOnly(bothOnly, f, Kind(times.value))
               /\ soleSource' = StillSoleSource(soleSource, f, Kind(times.value))
               /\ feedsToCheck' = Sorted(feedsToCheck, new.feedScores, TRUE)
               /\ UNCHANGED aborted
    /\ UNCHANGED <<stations, iter, ret, calls, startOrder, startScores, xvars, cvars>>

\* One iteration of the for loop whose fetch and decode succeed: gettimes
\* runs on what the feed holds, then the loop body.  gettimes may still
\* raise on an update without arrival, which ends the call.
Probe(feed, clk) ==
    /\ pc = "loop"
    /\ idx <= Len(iter)
    /\ LET f     == iter[idx]
           times == gettimes(feed, stations[1], stations[2], clk)
           st    == [uptownTrainIDs |-> uptownTrainIDs, uptownTimes |-> uptownTimes,
                     downtownTrainIDs |-> downtownTrainIDs,
                     downtownTimes |-> downtownTimes, feedScores |-> feedScores]
           new   == LoopBody(st, f, times.value)
       IN
       /\ IF times.raised
          THEN /\ pc' = "raised"
               /\ probes' = Append(probes,
                    [feed |-> f, data |-> feed, failed |-> TRUE, times |-> EmptyTimes,
                     upBefore |-> uptownTrainIDs # <<>>,
                     downBefore |-> downtownTrainIDs # <<>>, delta |-> 0])
               /\ bothOnly' = {}
               /\ soleSource' = {}
               /\ aborted' = TRUE
               /\ UNCHANGED <<globals, locals, idx>>
          ELSE /\ uptownTrainIDs' = new.uptownTrainIDs
               /\ uptownTimes' = new.uptownTimes
               /\ downtownTrainIDs' = new.downtownTrainIDs
               /\ downtownTimes' = new.downtownTimes
               /\ feedScores' = new.feedScores
               /\ idx' = idx + 1
               /\ pc' = IF new.broke \/ idx = Len(iter) THEN "sort" ELSE "loop"
               /\ probes' = Append(probes,
                    [feed |-> f, data |-> feed, failed |-> FALSE, times |-> times.value,
                     upBefore |-> uptownTrainIDs # <<>>,
                     downBefore |-> downtownTrainIDs # <<>>,
                     delta |-> new.feedScores[f] - feedScores[f]])
               /\ bothOnly' = StillBothOnly(bothOnly, f, Kind(times.value))
               /\ soleSource' = StillSoleSource(soleSource, f, Kind(times.value))
               /\ UNCHANGED <<feedsToCheck, aborted>>
    /\ UNCHANGED <<stations, iter, ret, calls, startOrder, startScores, xvars, cvars>>

\* A mutant of FetchFail: the exception is caught and the loop goes on
\* with the next feed.
FetchFailSkipped ==
    /\ pc = "loop"
    /\ idx <= Len(iter)
    /\ pc' = IF idx = Len(iter) THEN "sort" ELSE "loop"
    /\ idx' = idx + 1
    /\ probes' = Append(probes,
         [feed |-> iter[idx], data |-> <<>>, failed |-> TRUE, times |-> EmptyTimes,
          upBefore |-> uptownTrainIDs # <<>>,
          downBefore |-> downtownTrainIDs # <<>>, delta |-> 0])
    /\ bothOnly' = {}
    /\ soleSource' = {}
    /\ UNCHANGED <<globals, locals, stations, iter, ret, calls,
                   startOrder, startScores, aborted, xvars, cvars>>

\* One iteration whose requests.get or ParseFromString raises: the
\* exception leaves getTrainTimes.
FetchFail ==
    /\ pc = "loop"
    /\ idx <= Len(iter)
    /\ pc' = "raised"
    /\ probes' = Append(probes,
         [feed |-> iter[idx], data |-> <<>>, failed |-> TRUE, times |-> EmptyTimes,
          upBefore |-> uptownTrainIDs # <<>>,
          downBefore |-> downtownTrainIDs # <<>>, delta |-> 0])
    /\ bothOnly' = {}
    /\ soleSource' = {}
    /\ aborted' = TRUE
    /\ UNCHANGED <<globals, locals, stations, iter, idx, ret, calls,
                   startOrder, startScores, xvars, cvars>>

\* After the loop: feedsToCheck is re-sorted by score and the accumulators
\* are returned.
Return ==
    /\ pc = "sort"
    /\ feedsToCheck' = Sorted(feedsToCheck, feedScores, TRUE)
    /\ ret' = <<uptownTrainIDs, uptownTimes, downtownTrainIDs, downtownTimes>>
    /\ pc' = "returned"
    /\ bothOnly' = bothOnly \cap {probes[i].feed : i \in 1..Len(probes)}
    /\ soleSource' = soleSource \cap {probes[i].feed : i \in 1..Len(probes)}
    /\ UNCHANGED <<feedScores, locals, stations, iter, idx, calls,
                   startOrder, startScores, probes, aborted, xvars, cvars>>

Next ==
    \/ \E st \in StopPairs : Call(st)
    \/ \E feed \in FeedCatalogue : \E clk \in Clocks(NumUpdates(feed)) : Probe(feed, clk)
    \/ FetchFail
    \/ Return

Spec == Init /\ [][Next]_vars

(***************************************************************************)
(* gettimes alone, on every small feed                                     *)
(***************************************************************************)
\* Feeds given to gettimes: every feed of 1 to e entities and at most n
\* updates, and every feed of one update at Q03N arriving 0..m seconds after
\* 1000.  A decoded feed has an entity list (subway_feed['entity']).
FeedInputs(e, n, m) ==
    (FeedsUpTo(e, n) \ {<<>>})
    \cup {SingleUpdateFeed("Q03N", <<"Q", "1">>, 1000 + d) : d \in 0..m}

InitExtract ==
    /\ InitScanner
    /\ xfeed \in FeedInputs(MaxEntities, MaxUpdates, MaxElapsed)
    /\ xstops \in StopPairs
    /\ xclk \in Clocks(NumUpdates(xfeed))
    /\ xtimes = [raised |-> FALSE, value |-> EmptyTimes]
    /\ xpc = "ready"
    /\ threads = [t \in Threads |-> ThreadIdle]
    /\ incs = [f \in Feeds |-> 0]
    /\ overlapped = FALSE

\* gettimes runs on the decoded feed.
Extract ==
    /\ xpc = "ready"
    /\ xtimes' = gettimes(xfeed, xstops[1], xstops[2], xclk)
    /\ xpc' = "done"
    /\ UNCHANGED <<globals, locals, control, history, xfeed, xstops, xclk, cvars>>

NextExtract == Extract

SpecExtract == InitExtract /\ [][NextExtract]_vars

(***************************************************************************)
(* Two concurrent calls of getTrainTimes (mta.py 135-170)                  *)
(*                                                                         *)
(* Each thread runs the code of getTrainTimes on its own locals; the       *)
(* globals feedsToCheck and feedScores are shared and there is no lock.    *)
(* A step is one access to a global with the local code up to the next     *)
(* one: feedScores[f] += 1 is a read and a write, and sorted() reads the   *)
(* list, then the key of each element, before the result is assigned.      *)
(* Locals that are dead at a position are reset to their initial value.    *)
(***************************************************************************)
\* The end of one iteration of the for loop without break: the next
\* element of the list, or the statement after the loop.
Advance(r) ==
    IF r.idx = Len(r.iter)
    THEN [r EXCEPT !.pc = "readorder", !.idx = 1, !.f = "", !.times = EmptyTimes, !.reg = 0]
    ELSE [r EXCEPT !.pc = "fetch", !.idx = r.idx + 1, !.f = "", !.times = EmptyTimes,
                   !.reg = 0]

\* break
Break(r) ==
    [r EXCEPT !.pc = "readorder", !.idx = 1, !.f = "", !.times = EmptyTimes, !.reg = 0]

\* Thread t enters getTrainTimes; the for loop takes the list feedsToCheck
\* names now.
TCall(t) ==
    /\ threads[t].pc = "idle"
    /\ threads' = [threads EXCEPT ![t] =
                     [ThreadIdle EXCEPT !.pc = "fetch", !.iter = feedsToCheck]]
    /\ overlapped' = (overlapped
                      \/ \E u \in Threads \ {t} : threads[u].pc \notin {"idle", "returned"})
    /\ UNCHANGED <<globals, locals, control, history, xvars, incs>>

\* What gettimes("Q03N", "Q03S") gives on the feeds of the catalogue, at
\* every course of the clock.
FetchResults ==
    {gettimes(fc[1], "Q03N", "Q03S", fc[2]) :
       fc \in UNION {{<<feed, clk>> : clk \in Clocks(NumUpdates(feed))} :
                      feed \in FeedCatalogue}}

\* gettimes for the next feed of the list, with the result times, up to the
\* first access to feedScores; an exception ends the call of the thread.
TFetch(t, times) ==
    LET r     == threads[t]
        got   == [r EXCEPT !.f = r.iter[r.idx], !.times = times.value]
    IN
    /\ r.pc = "fetch"
    /\ threads' = [threads EXCEPT ![t] =
                     IF times.raised THEN [ThreadIdle EXCEPT !.pc = "raised"]
                     ELSE IF Len(times.value[1]) # 0 THEN [got EXCEPT !.pc = "loadUp"]
                     ELSE IF Len(times.value[3]) # 0 THEN [got EXCEPT !.pc = "loadDown"]
                     ELSE Advance(r)]
    /\ UNCHANGED <<globals, locals, control, history, xvars, incs, overlapped>>

\* requests.get or ParseFromString raises in thread t.
TFetchFail(t) ==
    /\ threads[t].pc = "fetch"
    /\ threads' = [threads EXCEPT ![t] = [ThreadIdle EXCEPT !.pc = "raised"]]
    /\ UNCHANGED <<globals, locals, control, history, xvars, incs, overlapped>>

\* feedScores[f] += 1, first half: the score is read.
TLoad(t) ==
    LET r == threads[t]
    IN
    /\ r.pc \in {"loadUp", "loadDown"}
    /\ threads' = [threads EXCEPT ![t] =
                     [r EXCEPT !.reg = feedScores[r.f],
                               !.pc = IF r.pc = "loadUp" THEN "storeUp" ELSE "storeDown"]]
    /\ UNCHANGED <<globals, locals, control, history, xvars, incs, overlapped>>

\* feedScores[f] += 1 for uptown, second half: the sum is written; then
\* the uptown accumulators are set and the rest of the loop body runs up
\* to the next access to feedScores.
TStoreUp(t) ==
    LET r  == threads[t]
        up == [r EXCEPT !.uptownTrainIDs = r.times[1], !.uptownTimes = r.times[2]]
    IN
    /\ r.pc = "storeUp"
    /\ feedScores' = [feedScores EXCEPT ![r.f] = r.reg + 1]
    /\ incs' = [incs EXCEPT ![r.f] = @ + 1]
    /\ threads' = [threads EXCEPT ![t] =
                     IF Len(r.downtownTrainIDs) # 0 THEN Break(up)
                     ELSE IF Len(r.times[3]) # 0 THEN [up EXCEPT !.pc = "loadDown", !.reg = 0]
                     ELSE Advance(up)]
    /\ UNCHANGED <<feedsToCheck, locals, control, history, xvars, overlapped>>

\* The same for downtown.
TStoreDown(t) ==
    LET r  == threads[t]
        dn == [r EXCEPT !.downtownTrainIDs = r.times[3], !.downtownTimes = r.times[4]]
    IN
    /\ r.pc = "storeDown"
    /\ feedScores' = [feedScores EXCEPT ![r.f] = r.reg + 1]
    /\ incs' = [incs EXCEPT ![r.f] = @ + 1]
    /\ threads' = [threads EXCEPT ![t] =
                     IF Len(r.uptownTrainIDs) # 0 THEN Break(dn) ELSE Advance(dn)]
    /\ UNCHANGED <<feedsToCheck, locals, control, history, xvars, overlapped>>

\* sorted(feedsToCheck, ...): the argument is evaluated.
TReadOrder(t) ==
    /\ threads[t].pc = "readorder"
    /\ threads' = [threads EXCEPT ![t] =
                     [threads[t] EXCEPT !.snap = feedsToCheck, !.keys = <<>>, !.pc = "readkey"]]
    /\ UNCHANGED <<globals, locals, control, history, xvars, incs, overlapped>>

\* sorted() calls the key function for the next element: feedScores[p].
TReadKey(t) ==
    LET r    == threads[t]
        keys == Append(r.keys, feedScores[r.snap[Len(r.keys) + 1]])
    IN
    /\ r.pc = "readkey"
    /\ threads' = [threads EXCEPT ![t] =
                     [r EXCEPT !.keys = keys,
                               !.pc = IF Len(keys) = Len(r.snap) THEN "writeorder"
                                      ELSE "readkey"]]
    /\ UNCHANGED <<globals, locals, control, history, xvars, incs, overlapped>>

\* The sorted list is assigned to feedsToCheck and the call returns.
TWriteOrder(t) ==
    LET r   == threads[t]
        key == [p \in Range(r.snap) |->
                  r.keys[CHOOSE i \in 1..Len(r.snap) : r.snap[i] = p]]
    IN
    /\ r.pc = "writeorder"
    /\ feedsToCheck' = Sorted(r.snap, key, TRUE)
    /\ threads' = [threads EXCEPT ![t] = [ThreadIdle EXCEPT !.pc = "returned"]]
    /\ UNCHANGED <<feedScores, locals, control, history, xvars, incs, overlapped>>

NextConc ==
    \E t \in Threads :
       \/ TCall(t)
       \/ \E times \in FetchResults : TFetch(t, times)
       \/ TFetchFail(t)
       \/ TLoad(t)
       \/ TStoreUp(t)
       \/ TStoreDown(t)
       \/ TReadOrder(t)
       \/ TReadKey(t)
       \/ TWriteOrder(t)

SpecConc == Init /\ [][NextConc]_vars

(***************************************************************************)
(* Properties of getTrainTimes                                             *)
(***************************************************************************)
\* Directions, by the position of their train ids in the 4-tuple; the
\* minutes of direction d are at d + 1.
Directions == {1, 3}

Succeeded(i) == ~probes[i].failed

\* The probes of the call that gave a non-empty result for direction d.
ProbesWith(d) == {i \in 1..Len(probes) : Succeeded(i) /\ probes[i].times[d] # <<>>}

FirstOf(I) == CHOOSE i \in I : \A j \in I : i <= j

FilledBefore(i, d) == IF d = 1 THEN probes[i].upBefore ELSE probes[i].downBefore

\* Number of directions probe i fills for the first time in the call.
NewlyFilled(i) ==
    Cardinality({d \in Directions : probes[i].times[d] # <<>> /\ ~FilledBefore(i, d)})

RECURSIVE SumScores(_, _)
SumScores(scores, fs) ==
    IF fs = {} THEN 0
    ELSE LET f == CHOOSE g \in fs : TRUE
         IN  scores[f] + SumScores(scores, fs \ {f})

Position(order, f) == CHOOSE i \in 1..Len(order) : order[i] = f

\* C1: a call that returns gives, for each direction, the extractor output
\* of the first feed probed (in the feed order at call start) whose output
\* for that direction is non-empty, and nothing if there is none: a later
\* feed never replaces a direction already filled.
C1_FirstFeedWins ==
    pc = "returned" =>
      \A d \in Directions :
        IF ProbesWith(d) = {}
        THEN ret[d] = <<>> /\ ret[d + 1] = <<>>
        ELSE LET i == FirstOf(ProbesWith(d))
             IN  /\ probes[i].feed = startOrder[i]
                 /\ ret[d] = probes[i].times[d]
                 /\ ret[d + 1] = probes[i].times[d + 1]

\* C2: a probe raises its feed's score by the number of directions it fills
\* for the first time, so the scores grow in one call by the number of
\* non-empty directions returned, each increment going to the feed whose
\* result is returned for that direction.
C2_ScoreOnlyForNewlyFilled ==
    /\ \A i \in 1..Len(probes) : Succeeded(i) => probes[i].delta = NewlyFilled(i)
    /\ pc = "returned" =>
         /\ SumScores(feedScores, Feeds) - SumScores(startScores, Feeds)
              = Cardinality({d \in Directions : ret[d] # <<>>})
         /\ \A f \in Feeds :
              feedScores[f] - startScores[f]
                = Cardinality({d \in Directions :
                     \E i \in 1..Len(probes) :
                        /\ probes[i].feed = f
                        /\ ret[d] # <<>>
                        /\ ret[d] = probes[i].times[d]
                        /\ ret[d + 1] = probes[i].times[d + 1]})

\* C3: the feeds probed in a call are a prefix of the feed order at call
\* start, each once and in order; no feed is probed once both directions
\* are non-empty, and the loop is left at the feed that makes them so.  With
\* feed #1 giving uptown only and feed #2 downtown only, exactly these two
\* are probed and each gets +1.
C3_PrefixAndEarlyExit ==
    pc # "idle" =>
      /\ Len(probes) <= Len(startOrder)
      /\ \A i \in 1..Len(probes) : probes[i].feed = startOrder[i]
      /\ \A i \in 1..Len(probes) : ~(probes[i].upBefore /\ probes[i].downBefore)
      /\ pc = "loop" => ~(uptownTrainIDs # <<>> /\ downtownTrainIDs # <<>>)
      /\ pc = "loop" => idx = Len(probes) + 1
      /\ (/\ pc \in {"sort", "returned"}
          /\ Len(probes) >= 2
          /\ Succeeded(1) /\ Kind(probes[1].times) = "up"
          /\ Succeeded(2) /\ Kind(probes[2].times) = "down")
         => /\ Len(probes) = 2
            /\ probes[1].delta = 1
            /\ probes[2].delta = 1
            /\ feedScores = [startScores EXCEPT ![startOrder[1]] = @ + 1,
                                                ![startOrder[2]] = @ + 1]

C3_Witness ==
    /\ pc = "returned"
    /\ Len(startOrder) > 2
    /\ Len(probes) = 2
    /\ Kind(probes[1].times) = "up"
    /\ Kind(probes[2].times) = "down"
    /\ ret[1] # <<>> /\ ret[3] # <<>>

\* C4: after a call that returns, the feed order is a permutation of the
\* known feeds, sorted by descending score, and feeds of equal score are in
\* the order they had before the re-sort.
C4_OrderSortedStable ==
    pc = "returned" =>
      /\ Len(feedsToCheck) = Cardinality(Feeds)
      /\ Range(feedsToCheck) = Feeds
      /\ \A i \in 1..Len(feedsToCheck) : \A j \in i..Len(feedsToCheck) :
           feedScores[feedsToCheck[i]] >= feedScores[feedsToCheck[j]]
      /\ \A f \in Feeds : \A g \in Feeds :
           (feedScores[f] = feedScores[g]
              /\ Position(startOrder, f) < Position(startOrder, g))
           => Position(feedsToCheck, f) < Position(feedsToCheck, g)

\* A returned call that moved a feed forward past feeds that stay tied.
C4_Witness ==
    /\ pc = "returned"
    /\ feedsToCheck # startOrder
    /\ \E f \in Feeds : \E g \in Feeds :
         /\ f # g
         /\ feedScores[f] = feedScores[g]
         /\ feedScores[feedsToCheck[1]] > feedScores[f]

Dominates(X) ==
    /\ \A f \in Feeds \ {X} : feedScores[X] > feedScores[f]
    /\ feedsToCheck[1] = X

\* C5 as stated: if in every call so far feed X gave both directions and no
\* other feed ever gave both, then after each call X has the strictly
\* greatest score and is first in the feed order.
C5_Original ==
    pc = "returned" => \A X \in bothOnly : Dominates(X)

\* C5 amended: if in every call so far no probe failed, feed X gave both
\* directions and no other feed gave a non-empty result for either
\* direction, then after each call X has the strictly greatest score and is
\* first in the feed order.
C5_SoleSourceDominates ==
    pc = "returned" => \A X \in soleSource : Dominates(X)

\* The second call of a feed that was not first in the initial order.
C5_Witness ==
    /\ pc = "returned"
    /\ calls = 2
    /\ \E X \in soleSource : X # KnownFeeds[1] /\ Dominates(X) /\ startOrder[1] = X

(***************************************************************************)
(* Properties of gettimes                                                  *)
(***************************************************************************)
\* The stop-time updates of a feed in decode order (entity order, then
\* update order), each with the route id of its trip.
RECURSIVE FlatUpdates(_)
FlatUpdates(feed) ==
    IF feed = <<>> THEN <<>>
    ELSE LET e == Head(feed)
         IN  [i \in 1..Len(e.stop_time_update) |->
                [stop_id |-> e.stop_time_update[i].stop_id,
                 has_arrival |-> e.stop_time_update[i].has_arrival,
                 arrival_time |-> e.stop_time_update[i].arrival_time,
                 route_id |-> e.route_id]]
             \o FlatUpdates(Tail(feed))

\* The whole number of minutes m nearest to e seconds, halves rounding
\* down: e lies between 29 seconds before and 30 seconds after m minutes.
NearestMinute(e) ==
    CHOOSE m \in 0..((e \div 60) + 1) : 60 * m - 29 <= e /\ e <= 60 * m + 30

\* Update u, read at clock now, is an arrival at stop that is not missed.
ArrivesAt(u, stop, now) ==
    u.stop_id = stop /\ u.has_arrival /\ u.arrival_time - now >= 0

\* ids and times are one direction of a result for stop on feed: of equal
\* length, strictly ascending in the minutes, and each train id is next to
\* the minutes of an update of its own trip.
SortedPaired(feed, stop, ids, times) ==
    /\ Len(ids) = Len(times)
    /\ \A i \in 1..(Len(times) - 1) : times[i] < times[i + 1]
    /\ LET flat == FlatUpdates(feed)
       IN  \A i \in 1..Len(times) :
             \E p \in 1..Len(flat) : \E now \in NowValues :
                /\ ArrivesAt(flat[p], stop, now)
                /\ NearestMinute(flat[p].arrival_time - now) = times[i]
                /\ Head(flat[p].route_id) = ids[i]

StopOf(st, d) == IF d = 1 THEN st[1] ELSE st[2]

\* C6: in every result of gettimes and of getTrainTimes, the train ids and
\* the minutes of a direction have the same length and are paired by
\* position, and the minutes are strictly ascending.
C6_PairedStrictlyAscending ==
    /\ \A i \in 1..Len(probes) : \A d \in Directions :
         Succeeded(i) =>
           SortedPaired(probes[i].data, StopOf(stations, d),
                        probes[i].times[d], probes[i].times[d + 1])
    /\ pc = "returned" =>
         \A d \in Directions :
           /\ Len(ret[d]) = Len(ret[d + 1])
           /\ \A i \in 1..(Len(ret[d + 1]) - 1) : ret[d + 1][i] < ret[d + 1][i + 1]
           /\ \/ ret[d] = <<>> /\ ret[d + 1] = <<>>
              \/ \E i \in 1..Len(probes) :
                   ret[d] = probes[i].times[d] /\ ret[d + 1] = probes[i].times[d + 1]

\* A call returned two uptown trains of different lines.
C6_Witness ==
    /\ pc = "returned"
    /\ Len(ret[2]) = 2
    /\ ret[1][1] # ret[1][2]
    /\ ret[3] # <<>>

\* The same for gettimes alone.
Extractor_PairedStrictlyAscending ==
    (xpc = "done" /\ ~xtimes.raised) =>
      \A d \in Directions :
        SortedPaired(xfeed, StopOf(xstops, d), xtimes.value[d], xtimes.value[d + 1])

\* Positions of the updates flat, the p-th read at clock clk[p], that arrive
\* at stop and round to m minutes.
Arrivals(flat, clk, stop, m) ==
    {p \in 1..Len(flat) :
       /\ ArrivesAt(flat[p], stop, clk[p])
       /\ NearestMinute(flat[p].arrival_time - clk[p]) = m}

\* The non-zero minutes of the updates that arrive at stop.
MinuteValues(flat, clk, stop) ==
    {NearestMinute(flat[p].arrival_time - clk[p]) :
       p \in {q \in 1..Len(flat) : ArrivesAt(flat[q], stop, clk[q])}} \ {0}

Extracted == xpc = "done" /\ ~xtimes.raised

\* C7: for distinct stop ids, the minutes returned for a direction are
\* exactly the rounded, non-zero minutes of the updates for that direction's
\* stop that are not missed; other updates and entities contribute nothing.
\* One update Q03N at now+89 with route "Q1" gives (["Q"],[1],[],[]).
C7_OnlyTargetStops ==
    (Extracted /\ xstops[1] # xstops[2]) =>
      LET flat == FlatUpdates(xfeed)
      IN  /\ \A d \in Directions :
               Range(xtimes.value[d + 1]) = MinuteValues(flat, xclk, StopOf(xstops, d))
          /\ (xfeed = SingleUpdateFeed("Q03N", <<"Q", "1">>, 1089) /\ xclk = <<1000>>)
               => xtimes.value = <<<<"Q">>, <<1>>, <<>>, <<>>>>

\* The feed mixes both stations, another station and an entity without trip
\* update, and both directions are found.
C7_Witness ==
    /\ Extracted
    /\ xstops[1] # xstops[2]
    /\ xtimes.value[1] # <<>> /\ xtimes.value[3] # <<>>
    /\ Len(xfeed) = 2
    /\ \E e \in Range(xfeed) : ~e.has_trip_update

\* C8: when several updates for a direction's stop give the same minutes,
\* the train id returned with these minutes is that of the first of them in
\* decode order, whatever the train ids.
C8_FirstSeenPerMinute ==
    Extracted =>
      LET flat == FlatUpdates(xfeed)
      IN  \A d \in Directions : \A i \in 1..Len(xtimes.value[d + 1]) :
            LET same == Arrivals(flat, xclk, StopOf(xstops, d), xtimes.value[d + 1][i])
            IN  /\ same # {}
                /\ xtimes.value[d][i] = Head(flat[FirstOf(same)].route_id)

\* Two trains of different lines in the same minute, the N first.
C8_Witness ==
    /\ Extracted
    /\ xtimes.value[1] = <<"N">>
    /\ LET flat == FlatUpdates(xfeed)
           same == Arrivals(flat, xclk, xstops[1], xtimes.value[2][1])
       IN  /\ Cardinality(same) = 2
           /\ \E p \in same : Head(flat[p].route_id) = "Q"

\* The feed of the latest gettimes run is one update at the uptown stop that
\* is not missed.
OneUpdate ==
    /\ Len(FlatUpdates(xfeed)) = 1
    /\ ArrivesAt(FlatUpdates(xfeed)[1], xstops[1], xclk[1])

\* Its elapsed time in seconds.
ElapsedOfOne == FlatUpdates(xfeed)[1].arrival_time - xclk[1]

\* The minutes the call shows for m: none for 0.
Shown(m) == IF m = 0 THEN <<>> ELSE <<m>>

\* C9: an elapsed time of e >= 0 seconds becomes floor(e/60) minutes when
\* e mod 60 <= 30 and floor(e/60) + 1 otherwise; 89 -> 1, 90 -> 1, 91 -> 2.
C9_RoundHalfDown ==
    (Extracted /\ OneUpdate) =>
      LET e == ElapsedOfOne
      IN  /\ xtimes.value[2] = Shown(IF e % 60 <= 30 THEN e \div 60 ELSE (e \div 60) + 1)
          /\ e = 89 => xtimes.value[2] = <<1>>
          /\ e = 90 => xtimes.value[2] = <<1>>
          /\ e = 91 => xtimes.value[2] = <<2>>

C9_Witness == Extracted /\ OneUpdate /\ ElapsedOfOne = 90 /\ xtimes.value[2] = <<1>>

\* Every update of the feed at one of the stations carries an arrival.
WellFormed(flat) ==
    \A p \in 1..Len(flat) :
       flat[p].stop_id \in {xstops[1], xstops[2]} => flat[p].has_arrival

\* C10: no minutes value of 0 or less is returned; an update that arrives
\* before now is skipped without an exception, and so is one that rounds to
\* 0 minutes (0 to 30 seconds).
C10_NoZeroOrNegative ==
    xpc = "done" =>
      LET flat == FlatUpdates(xfeed)
      IN  /\ WellFormed(flat) => ~xtimes.raised
          /\ \A d \in Directions : \A i \in 1..Len(xtimes.value[d + 1]) :
               xtimes.value[d + 1][i] >= 1
          /\ (/\ Len(flat) = 1
              /\ flat[1].has_arrival
              /\ flat[1].arrival_time - xclk[1] <= 30)
             => xtimes = [raised |-> FALSE, value |-> EmptyTimes]

\* An arrival 0 to 30 seconds away and a missed one were both skipped, and
\* nothing was raised.
C10_Witness ==
    /\ Extracted
    /\ xtimes.value = EmptyTimes
    /\ LET flat == FlatUpdates(xfeed)
       IN  /\ \E p \in 1..Len(flat) :
                flat[p].stop_id = xstops[1] /\ flat[p].arrival_time - xclk[p] < 0
           /\ \E p \in 1..Len(flat) :
                /\ ArrivesAt(flat[p], xstops[1], xclk[p])
                /\ flat[p].arrival_time - xclk[p] <= 30

(***************************************************************************)
(* Further properties of getTrainTimes                                     *)
(***************************************************************************)
\* The feeds probed so far in the call.
Probed == {probes[i].feed : i \in 1..Len(probes)}

\* order is sorted by descending score.
SortedDescending(order, scores) ==
    \A i \in 1..Len(order) : \A j \in i..Len(order) : scores[order[i]] >= scores[order[j]]

\* C11: in a call that returns, a direction is empty in the result exactly
\* when no feed gave a non-empty result for it, and then every known feed
\* was probed: neither the early exit nor the feed order hides a direction
\* that some feed holds.
C11_EmptyIffNoFeedYields ==
    pc = "returned" =>
      \A d \in Directions :
        /\ (ret[d] = <<>>) <=> (ProbesWith(d) = {})
        /\ (ret[d] = <<>>) <=> (ret[d + 1] = <<>>)
        /\ ret[d] = <<>> => Len(probes) = Cardinality(Feeds) /\ Probed = Feeds

\* A call on a feed order that an earlier call changed returns downtown
\* only, after probing every feed.
C11_Witness ==
    /\ pc = "returned"
    /\ startOrder # KnownFeeds
    /\ ret[1] = <<>> /\ ret[3] # <<>>
    /\ Len(probes) = Cardinality(Feeds)

\* C12 as stated: while the loop is fetching feeds, the scores and the feed
\* order are those of the call start.
C12_Original ==
    pc = "loop" => feedScores = startScores /\ feedsToCheck = startOrder

\* C12 amended: the feed order is that of the call start until the re-sort
\* after the loop; the scores change inside the loop, where a probe raises
\* the score of its own feed only, by 1 for each direction it takes.
C12_OrderOnceScoresInLoop ==
    /\ pc \in {"loop", "sort", "raised"} => feedsToCheck = startOrder
    /\ pc # "idle" =>
         /\ \A f \in Feeds \ Probed : feedScores[f] = startScores[f]
         /\ \A i \in 1..Len(probes) :
              /\ feedScores[probes[i].feed] = startScores[probes[i].feed] + probes[i].delta
              /\ probes[i].delta \in 0..2
              /\ probes[i].delta = 0 <=> Kind(probes[i].times) = "none"

\* The loop is still fetching and a score has already been raised.
C12_Witness ==
    /\ pc = "loop"
    /\ feedScores # startScores
    /\ feedsToCheck = startOrder
    /\ ~SortedDescending(feedsToCheck, feedScores)

\* C13: a failure of the fetch or of the decode ends the call: the failed
\* probe is the last one, nothing is returned, although a direction may
\* have been found already, and the feed order is not re-sorted.
C13_FailureAbortsCall ==
    /\ \A i \in 1..Len(probes) : probes[i].failed => i = Len(probes) /\ pc = "raised"
    /\ pc = "raised" =>
         /\ probes # <<>>
         /\ probes[Len(probes)].failed
         /\ idx = Len(probes)
         /\ ret = EmptyTimes
         /\ feedsToCheck = startOrder

\* The fetch of the second feed failed after the first feed gave uptown, and
\* a feed was left unprobed.
C13_Witness ==
    /\ pc = "raised"
    /\ Len(probes) = 2
    /\ probes[2].data = <<>>
    /\ uptownTrainIDs # <<>>
    /\ Len(iter) > 2

\* Neither station occurs in the decoded feed.
NoStop(data, st) ==
    \A p \in 1..Len(FlatUpdates(data)) : FlatUpdates(data)[p].stop_id \notin {st[1], st[2]}

\* The safety part of C14.
C14_ProbesBounded ==
    /\ Len(probes) <= Cardinality(Feeds)
    /\ \A i \in 1..Len(probes) : \A j \in 1..Len(probes) :
         probes[i].feed = probes[j].feed => i = j
    /\ pc = "loop" => idx = Len(probes) + 1 /\ idx <= Len(iter)
    /\ \A i \in 1..Len(probes) :
         (probes[i].data # <<>> /\ NoStop(probes[i].data, stations)) => Succeeded(i)
    /\ (\A i \in 1..Len(probes) : Succeeded(i) /\ NoStop(probes[i].data, stations)) =>
         /\ pc = "sort" => Len(probes) = Cardinality(Feeds)
         /\ pc = "returned" =>
              /\ Len(probes) = Cardinality(Feeds)
              /\ \A i \in 1..Len(probes) : probes[i].feed = startOrder[i]
              /\ ret = EmptyTimes

\* Every step of a call in progress brings it nearer to its end: a step in
\* the loop leaves the loop or moves on to the next feed of the list, of
\* which there are as many as known feeds, and the step after the loop
\* returns.
C14_Progress ==
    /\ pc = "loop" =>
         /\ Len(iter) = Cardinality(Feeds)
         /\ \/ pc' \in {"sort", "raised"}
            \/ pc' = "loop" /\ idx' = idx + 1 /\ idx' <= Len(iter) /\ iter' = iter
         /\ Len(probes') = Len(probes) + 1
    /\ pc = "sort" => pc' = "returned"

\* C14: a call probes at most as many feeds as are known and none twice,
\* and ends after that many steps of the loop at most; when neither station
\* occurs in any feed, no probe raises, every known feed is probed once in
\* the feed order, and the call returns four empty sequences.
C14_Terminates ==
    /\ []C14_ProbesBounded
    /\ [][C14_Progress]_vars

\* A call returned nothing after probing every feed, one of which holds
\* arrivals at another station only.
C14_Witness ==
    /\ pc = "returned"
    /\ ret = EmptyTimes
    /\ Len(probes) = Cardinality(Feeds)
    /\ \A i \in 1..Len(probes) : NoStop(probes[i].data, stations)
    /\ \E i \in 1..Len(probes) : FlatUpdates(probes[i].data) # <<>>

\* C15: a probe that gives both directions when neither is filled raises
\* its feed's score by 2, both directions are taken from it and it is the
\* last probe of the call; no score rises by more than 2 in a call and the
\* scores of the feeds not probed stay.
C15_BothFromOneFeed ==
    pc # "idle" =>
      /\ \A i \in 1..Len(probes) :
           (/\ Succeeded(i)
            /\ Kind(probes[i].times) = "both"
            /\ ~probes[i].upBefore /\ ~probes[i].downBefore)
           => /\ probes[i].delta = 2
              /\ feedScores[probes[i].feed] = startScores[probes[i].feed] + 2
              /\ i = Len(probes)
              /\ pc \in {"sort", "returned"}
              /\ <<uptownTrainIDs, uptownTimes, downtownTrainIDs, downtownTimes>>
                   = probes[i].times
              /\ pc = "returned" => ret = probes[i].times
      /\ \A f \in Feeds :
           /\ feedScores[f] >= startScores[f]
           /\ feedScores[f] <= startScores[f] + 2
           /\ f \notin Probed => feedScores[f] = startScores[f]

\* The second feed of the order gave both directions after the first gave
\* none, and the third was not probed.
C15_Witness ==
    /\ pc = "returned"
    /\ Len(probes) = 2
    /\ Kind(probes[1].times) = "none"
    /\ Kind(probes[2].times) = "both"
    /\ feedScores[probes[2].feed] = startScores[probes[2].feed] + 2
    /\ ret = probes[2].times

\* C18: a call left by an exception leaves the scores and the feed order as
\* they were before the call, and at the start of every call the feed order
\* is sorted by descending score.
C18_AbortLeavesStateUntouched ==
    /\ pc = "raised" => feedScores = startScores /\ feedsToCheck = startOrder
    /\ (pc = "loop" /\ probes = <<>>) => SortedDescending(feedsToCheck, feedScores)

\* C19: when every call so far returned, a call changes the relative order
\* of two feeds only if the score of one of them was raised in the call; a
\* call in which no feed gave a direction leaves the scores and the feed
\* order as they were.
C19_ResortFrame ==
    (pc = "returned" /\ ~aborted) =>
      /\ \A f \in Feeds : \A g \in Feeds :
           (/\ feedScores[f] = startScores[f]
            /\ feedScores[g] = startScores[g]
            /\ Position(startOrder, f) < Position(startOrder, g))
           => Position(feedsToCheck, f) < Position(feedsToCheck, g)
      /\ (\A i \in 1..Len(probes) : Kind(probes[i].times) = "none") =>
           feedScores = startScores /\ feedsToCheck = startOrder

\* A second call found nothing and left an order that the first call had
\* changed; two feeds of different scores kept their places.
C19_Witness ==
    /\ pc = "returned"
    /\ ~aborted
    /\ calls = 2
    /\ startOrder # KnownFeeds
    /\ \A i \in 1..Len(probes) : Kind(probes[i].times) = "none"
    /\ feedsToCheck = startOrder
    /\ feedScores = startScores

(***************************************************************************)
(* Further properties of gettimes                                          *)
(***************************************************************************)
\* C16: the result of gettimes is the one a single clock reading gives for
\* the whole feed, and two updates for the same station with the same
\* arrival time, neither of them missed, come to the same minutes.
C16_SameNowPerFeed ==
    Extracted =>
      LET flat == FlatUpdates(xfeed)
      IN  /\ \E now \in NowValues :
               xtimes = gettimes(xfeed, xstops[1], xstops[2],
                                 [p \in 1..Len(flat) |-> now])
          /\ \A p \in 1..Len(flat) : \A q \in p..Len(flat) :
               (/\ flat[p].stop_id = flat[q].stop_id
                /\ flat[p].arrival_time = flat[q].arrival_time
                /\ \E d \in Directions :
                      /\ ArrivesAt(flat[p], StopOf(xstops, d), xclk[p])
                      /\ ArrivesAt(flat[q], StopOf(xstops, d), xclk[q]))
               => NearestMinute(flat[p].arrival_time - xclk[p])
                    = NearestMinute(flat[q].arrival_time - xclk[q])

(***************************************************************************)
(* Properties of concurrent calls                                          *)
(***************************************************************************)
AllReturned == \A t \in Threads : threads[t].pc = "returned"

\* A score is lower than the number of increments executed on it.
LostUpdate == \E f \in Feeds : feedScores[f] < incs[f]

\* The feed order is not sorted by descending score.
StaleOrder == ~SortedDescending(feedsToCheck, feedScores)

\* C17: two calls that run concurrently without a lock can end in a bad
\* state, a lost increment or a feed order that is not the descending order
\* of the final scores (the witness).  The bad states come from the
\* interleaving only: a score never exceeds the increments executed on it,
\* the feed order stays a permutation of the known feeds, and when the two
\* calls did not overlap, no increment is lost and the feed order is sorted
\* after both returned.
C17_BadOnlyWhenOverlapped ==
    /\ \A f \in Feeds : feedScores[f] <= incs[f]
    /\ Len(feedsToCheck) = Cardinality(Feeds) /\ Range(feedsToCheck) = Feeds
    /\ (AllReturned /\ ~overlapped) => ~LostUpdate /\ ~StaleOrder

\* Both calls have returned, an increment is lost and the feed order is
\* not the descending order of the final scores.
C17_Witness ==
    /\ AllReturned
    /\ overlapped
    /\ LostUpdate
    /\ StaleOrder

==========================================================================
